---- MODULE Spec2Model ----
(***************************************************************************)
(* Model of the placeholder editor (frontend/src/components/Edit.tsx,      *)
(* Chat.tsx, services/documentService.ts).                                 *)
(*                                                                         *)
(* React state is modelled as the variables below.  Every handler is one   *)
(* action; the state updates a handler queues are batched, and the effects *)
(* that depend on the changed state (the draft reconciliation useEffect)   *)
(* run as part of the same action.  An await splits a handler into steps.  *)
(* JavaScript objects are functions from their keys; a missing key or an   *)
(* absent field of a record is a key or field outside the DOMAIN.          *)
(* Indices of sequences are 1-based here and 0-based in the source.        *)
(***************************************************************************)
EXTENDS Integers, Sequences, FiniteSets, TLC

VARIABLES
    placeholders,    \* Edit.tsx:86  Record<string, Placeholder>: the committed store
    templateBuffer,  \* Edit.tsx:88  the bound document, or NoBuffer
    orderedNames,    \* Edit.tsx:90  string[]
    documentId,      \* Edit.tsx:91  the session id, or NoDocument
    isUploading,     \* Edit.tsx:92
    draftValues,     \* Edit.tsx:95  Record<string, string>
    openaiApiKey,    \* Edit.tsx:98
    drawerTab,       \* Edit.tsx:161 0 = fields, 1 = chat
    upload,          \* position of the running handleFileUpload
    uploadCount,     \* uploads started so far; the service's next document_id
    isLoading,       \* Chat.tsx:36  state of the mounted Chat component
    pending,         \* agent message requests in flight (handleSend closures)
    chats,           \* Chat.tsx:37  state of the mounted Chat component
    chatStore,       \* Chat.tsx:32  Map<string, ChatMessage[]>, kept across mounts
    sent,            \* the document id each message was sent for, in send order
    syncs,           \* bulk-update requests in flight (applyOne closures)
    preview,         \* Edit.tsx:89  what previewRef shows
    boundDocId,      \* the upload the bound document, store and drafts come from
    last,            \* the last step of a handler other than a completed bulk update:
                     \* its input and the state before it
    binder,          \* the binder run on its own: its inputs and outputs
    adapter,         \* the update adapter run on its own: its inputs and outputs
    reconciler,      \* the draft reconciler run on its own: its inputs and outputs
    materializer     \* the materializer run on its own: its inputs and outputs

coreVars == <<placeholders, templateBuffer, orderedNames, documentId, draftValues>>
uiVars == <<isUploading, openaiApiKey, drawerTab, upload, uploadCount>>
chatVars == <<isLoading, pending, chats, chatStore, sent>>
sideVars == <<syncs, preview>>
pureVars == <<binder, adapter, reconciler, materializer>>
vars == <<coreVars, uiVars, chatVars, sideVars, boundDocId, last, pureVars>>

-----------------------------------------------------------------------------
(* Bounds *)
MaxTokens == 2     \* raw placeholder tokens in an uploaded document
MaxNames == 2      \* names in the extraction service's list
MaxUploads == 1    \* uploads started in one run
MaxReuploads == 1  \* further uploads in the runs that replace a session
MaxBatch == 2      \* update records in one agent response
MaxPending == 1    \* agent message requests in flight
MaxSends == 1      \* agent messages sent in one run
MaxResends == 1    \* further messages in the runs that send while a request is pending
MaxSyncs == 1      \* bulk-update requests in flight

\* useState<ArrayBuffer | null>(null): no buffer, or the buffer of a document
NoBuffer == <<>>
Buffer(doc) == <<doc>>
\* useState<string | null>(null): document ids are 1, 2, ...
NoDocument == 0
Undefined == "<undefined>"
\* previewRef.current.innerHTML = ""
NoPreview == <<>>
Shown(doc) == <<doc>>
EmptyObject == [k \in {} |-> ""]

-----------------------------------------------------------------------------
(* Strings *)

\* String.prototype.padStart(targetLength, padString) for a one-character pad
RECURSIVE padStart(_, _, _)
padStart(s, targetLength, padString) ==
    IF Len(s) >= targetLength THEN s
    ELSE padStart(padString \o s, targetLength, padString)

\* String.prototype.trim on the strings of the model
trim(s) ==
    CASE s = "  " -> ""
      [] s = " email " -> "email"
      [] OTHER -> s

\* JavaScript truthiness of a string or undefined
Truthy(k) == k # Undefined /\ k # ""

-----------------------------------------------------------------------------
(* Occurrence binder: Edit.tsx:53-81 *)

DELIMS == [start |-> "[", end |-> "]"]

Wrap(tag) == DELIMS.start \o tag \o DELIMS.end

\* (the counter itself instead of the 1-based position)
PlaceholderNameOfCounter(idx) == "placeholder_" \o padStart(ToString(idx), 3, "0")
\* the fallback name of the token met when the counter is idx (Edit.tsx:68)
PlaceholderName(idx) == "placeholder_" \o padStart(ToString(idx + 1), 3, "0")

\* orderedNewNames[idx] ?? fallback  (Edit.tsx:68)
NextName(orderedNewNames, idx) ==
    IF idx + 1 \in DOMAIN orderedNewNames THEN orderedNewNames[idx + 1]
    ELSE PlaceholderName(idx)

\* parser().get(): called once per token, in document order, idx counting up
ParserGet(orderedNewNames, idx) == Wrap(NextName(orderedNewNames, idx))

\* the document as its sequence of tokens; every token is rendered by get()
renameDocxByOccurrence(tokens, orderedNewNames) ==
    [i \in 1..Len(tokens) |-> ParserGet(orderedNewNames, i - 1)]

\* names the extraction service returns
ServiceNames == {"full_name", "email"}
\* ... and one that has the shape of a fallback name
BinderNames == ServiceNames \cup {"placeholder_002"}

\* every tag a bound document can hold
TagUniverse == BinderNames \cup {PlaceholderName(i) : i \in 0..MaxTokens}

\* the tag inside a rendered token: the templating engine parses [tag] back
TagOf(text) == CHOOSE n \in TagUniverse : Wrap(n) = text

\* InspectModule.getAllTags(): the keys are the distinct tags of the document
getAllTags(buffer) == {TagOf(buffer[i]) : i \in DOMAIN buffer}

SeqsUpTo(S, n) == UNION {[1..k -> S] : k \in 0..n}

-----------------------------------------------------------------------------
(* Update protocol adapter and draft reconciler: Edit.tsx:335-401, 734-749 *)

\* obj[k] ?? ""
Get(obj, k) == IF k \in DOMAIN obj THEN obj[k] ELSE ""

\* placeholders[name]?.value ?? ""
Committed(store, name) == IF name \in DOMAIN store THEN store[name].value ELSE ""

\* {...obj, [k]: v}
Put(obj, k, v) == [x \in DOMAIN obj \cup {k} |-> IF x = k THEN v ELSE obj[x]]

\* (an order in range taken before the name)
ResolveKeyPrefersOrder(u, names) ==
    LET key == IF "name" \in DOMAIN u THEN trim(u.name) ELSE Undefined
    IN IF "order" \in DOMAIN u /\ u.order >= 1 /\ u.order <= Len(names)
       THEN names[u.order]
       ELSE key
\* (the order taken as a 0-based index)
ResolveKeyZeroBased(u, names) ==
    LET key == IF "name" \in DOMAIN u THEN trim(u.name) ELSE Undefined
    IN IF ~Truthy(key) /\ "order" \in DOMAIN u
       THEN IF u.order >= 0 /\ u.order < Len(names) THEN names[u.order + 1] ELSE key
       ELSE key
\* Edit.tsx:342-346 (and 741-745): the key an update record addresses, with
\* the orderedNames of the render the handler was created in
ResolveKey(u, names) ==
    LET key == IF "name" \in DOMAIN u THEN trim(u.name) ELSE Undefined
    IN IF ~Truthy(key) /\ "order" \in DOMAIN u
       THEN LET idx == u.order - 1
            IN IF idx >= 0 /\ idx < Len(names) THEN names[idx + 1] ELSE key
       ELSE key

\* (a value already set is not overwritten)
ApplyRecordKeepsFirst(next, u, names) ==
    LET key == ResolveKey(u, names)
    IN IF ~Truthy(key) \/ key \notin DOMAIN next \/ next[key].value # "" THEN next
       ELSE [next EXCEPT ![key].value = u.value]
\* Edit.tsx:341-349: one record applied to the copy of the store
ApplyRecord(next, u, names) ==
    LET key == ResolveKey(u, names)
    IN IF ~Truthy(key) \/ key \notin DOMAIN next THEN next
       ELSE [next EXCEPT ![key].value = u.value]

\* Edit.tsx:337-352: the updater of setPlaceholders, records in order
RECURSIVE applyStructuredUpdates(_, _, _)
applyStructuredUpdates(prev, updates, names) ==
    IF updates = <<>> THEN prev
    ELSE applyStructuredUpdates(ApplyRecord(prev, Head(updates), names), Tail(updates), names)

\* (the response not reflected in the drafts)
DraftRecordSkipped(next, u, names) == next
\* Edit.tsx:740-746: one record written to the copy of the drafts
DraftRecord(next, u, names) ==
    LET k == ResolveKey(u, names)
    IN IF Truthy(k) THEN Put(next, k, u.value) ELSE next

\* Edit.tsx:737-748: the updater of setDraftValues in onChatResponse
RECURSIVE DraftWrite(_, _, _)
DraftWrite(prev, updates, names) ==
    IF updates = <<>> THEN prev
    ELSE DraftWrite(DraftRecord(prev, Head(updates), names), Tail(updates), names)

\* Edit.tsx:362
isDirty(drafts, store, name) == Get(drafts, name) # Committed(store, name)

\* (every draft synced from the store)
ReconcileOverwrites(prev, store) ==
    [k \in DOMAIN prev \cup DOMAIN store |->
        IF k \in DOMAIN store THEN store[k].value ELSE prev[k]]
\* Edit.tsx:389-401: the effect run after a render in which placeholders
\* changed; isDirty reads the drafts and the store of that render
Reconcile(prev, store) ==
    [k \in DOMAIN prev \cup DOMAIN store |->
        IF k \in DOMAIN store /\ (k \notin DOMAIN prev \/ ~isDirty(prev, store, k))
        THEN store[k].value
        ELSE prev[k]]

\* Edit.tsx:358: the updater of setDraftValues in onDraftChange
DraftChanged(prev, name, value) == Put(prev, name, value)

\* (the field emptied by the apply)
ApplyOneClearsDraft(store, drafts, name, names) ==
    LET value == Get(drafts, name)
        nextStore == applyStructuredUpdates(store, <<[name |-> name, value |-> value]>>, names)
    IN [placeholders |-> nextStore,
        draftValues |-> Reconcile(Put(drafts, name, ""), nextStore)]
\* Edit.tsx:365-370: the state updates applyOne queues, followed by the
\* reconciliation effect (389-401)
ApplyOne(store, drafts, name, names) ==
    LET value == Get(drafts, name)
        nextStore == applyStructuredUpdates(store, <<[name |-> name, value |-> value]>>, names)
    IN [placeholders |-> nextStore,
        draftValues |-> Reconcile(Put(drafts, name, value), nextStore)]

\* (the committed value instead of the applied one)
SyncRequestOfStore(doc, name, value) ==
    [id |-> doc, updates |-> <<[name |-> name, value |-> Committed(placeholders, name)]>>]
\* Edit.tsx:375, documentService.ts:59-71: the body of the bulk-update request
SyncRequest(doc, name, value) ==
    [id |-> doc, updates |-> <<[name |-> name, value |-> value]>>]

-----------------------------------------------------------------------------
(* Document materializer: Edit.tsx:246-333 *)

\* (the fields as typed in the scope)
PreviewDataOfDrafts(store) ==
    [tag \in DOMAIN store |->
        IF trim(Get(draftValues, tag)) # "" THEN Get(draftValues, tag) ELSE Wrap(tag)]
\* Edit.tsx:248-252: the scope of the preview render
PreviewData(store) ==
    [tag \in DOMAIN store |->
        IF trim(store[tag].value) # "" THEN store[tag].value ELSE Wrap(tag)]

\* (a whitespace-only value kept in the scope)
DownloadDataUntrimmed(store) ==
    [tag \in {t \in DOMAIN store : store[t].value # ""} |-> store[tag].value]
\* Edit.tsx:301-305: the scope of the export render
DownloadData(store) ==
    [tag \in {t \in DOMAIN store : trim(store[t].value) # ""} |-> store[tag].value]

\* doc.render(data) with parser get(scope) = scope[tag] and the nullGetter
\* (Edit.tsx:259-265, 311-315): an undefined value renders as [tag]
TemplateRender(doc, data) ==
    [i \in DOMAIN doc |->
        LET tag == TagOf(doc[i])
        IN IF tag \in DOMAIN data THEN data[tag] ELSE Wrap(tag)]

\* Edit.tsx:246-276: null without a template or when the render throws
generateFilledArrayBuffer(buffer, store, renders) ==
    IF buffer = NoBuffer \/ ~renders THEN NoBuffer
    ELSE Buffer(TemplateRender(buffer[1], PreviewData(store)))

\* Edit.tsx:299-322: the document handed to saveAs
handleDownload(buffer, store) == TemplateRender(buffer[1], DownloadData(store))

\* Edit.tsx:278-297: the effect run after a render in which templateBuffer or
\* placeholders changed; renderAsync shows the filled document
PreviewEffect(shown, buffer, store, renders) ==
    IF buffer = NoBuffer THEN shown
    ELSE LET filled == generateFilledArrayBuffer(buffer, store, renders)
         IN IF filled = NoBuffer THEN NoPreview ELSE Shown(filled[1])

\* what the step records of its render
Rendered(renders) == IF renders THEN "ok" ELSE "failed"

-----------------------------------------------------------------------------
(* Inputs *)

\* an uploaded file: its raw tokens in document order, or not a container
RawTags == {"X"}
Files == [valid : {TRUE}, tokens : SeqsUpTo(RawTags, MaxTokens) \ {<<>>}]
             \cup {[valid |-> FALSE, tokens |-> <<>>]}

\* the placeholders of an upload response: {order, name, description}
Description(i) == "d" \o ToString(i)
ApiPlaceholders(names) ==
    [i \in DOMAIN names |-> [order |-> i, name |-> names[i], description |-> Description(i)]]
Injective(names) == \A i, j \in DOMAIN names : names[i] = names[j] => i = j
Responses ==
    {ApiPlaceholders(names) : names \in {n \in SeqsUpTo(ServiceNames, MaxNames) : Injective(n)}}

\* text typed into a field, and values an agent sends
EditValues == {"", "Ana"}
AgentValues == {"Ana", "Ana Lopez"}

\* update records of an agent response: by name (known, padded, unknown)
\* and by order (in range, out of range)
UpdateRecords ==
    [name : {"full_name"}, value : AgentValues]
    \cup [name : {" email ", "phone"}, value : {"Ana Lopez"}]
    \cup [order : {1, MaxNames + 1}, value : {"Ana Lopez"}]
Batches == SeqsUpTo(UpdateRecords, MaxBatch)

-----------------------------------------------------------------------------
(* State *)

InitSystem ==
    /\ placeholders = EmptyObject
    /\ templateBuffer = NoBuffer
    /\ orderedNames = <<>>
    /\ documentId = NoDocument
    /\ isUploading = FALSE
    /\ draftValues = EmptyObject
    /\ openaiApiKey = ""
    /\ drawerTab = 0
    /\ upload = "idle"
    /\ uploadCount = 0
    /\ isLoading = FALSE
    /\ pending = <<>>
    /\ chats = <<>>
    /\ chatStore = EmptyObject
    /\ sent = <<>>
    /\ syncs = 0
    /\ preview = NoPreview
    /\ boundDocId = NoDocument
    /\ last = [op |-> "init"]

Init ==
    /\ InitSystem
    /\ binder = [pc |-> "off"]
    /\ adapter = [pc |-> "off"]
    /\ reconciler = [pc |-> "off"]
    /\ materializer = [pc |-> "off"]

\* the mounted Chat is unmounted: its state is dropped and the requests it
\* sent can no longer reach a mounted component
Unmounted(reqs) == [i \in DOMAIN reqs |-> [reqs[i] EXCEPT !.live = FALSE]]

\* Chat.tsx:41-44: chatStore.get(documentId) || []
currentChats(store, doc) ==
    IF doc # NoDocument /\ doc \in DOMAIN store THEN store[doc] ELSE <<>>

\* Chat.tsx:59-64, 76-82, 102-107: the messages of the k-th request
UserMessage(k) == [role |-> "user", msg |-> k]
AssistantMessage(k) == [role |-> "assistant", msg |-> k, error |-> FALSE]
ErrorChatMessage(k) == [role |-> "assistant", msg |-> k, error |-> TRUE]

\* (the input saved as typed)
handleApiKeySaveUnchecked(input) ==
    /\ openaiApiKey' = input
    /\ last' = [op |-> "saveKey"]
    /\ UNCHANGED <<coreVars, isUploading, drawerTab, upload, uploadCount, chatVars,
                   sideVars, boundDocId, pureVars>>
\* Edit.tsx:130-144
handleApiKeySave(input) ==
    /\ trim(input) # ""
    /\ openaiApiKey' = trim(input)
    /\ last' = [op |-> "saveKey"]
    /\ UNCHANGED <<coreVars, isUploading, drawerTab, upload, uploadCount, chatVars,
                   sideVars, boundDocId, pureVars>>

\* Edit.tsx:164-182: the handler up to its first request
handleFileUpload(limit) ==
    /\ ~isUploading
    /\ openaiApiKey # ""
    /\ uploadCount < limit
    /\ isUploading' = TRUE
    /\ upload' = "first"
    /\ uploadCount' = uploadCount + 1
    /\ last' = [op |-> "uploadStart"]
    /\ UNCHANGED <<coreVars, openaiApiKey, drawerTab, chatVars, sideVars, boundDocId, pureVars>>

\* (the flag cleared for the time of the wait)
UploadFirstFailedClears ==
    /\ upload = "first"
    /\ upload' = "wait"
    /\ isUploading' = FALSE
    /\ last' = [op |-> "uploadWait"]
    /\ UNCHANGED <<coreVars, openaiApiKey, drawerTab, uploadCount, chatVars,
                   sideVars, boundDocId, pureVars>>
\* Edit.tsx:183-188: the first request failed; the handler waits
UploadFirstFailed ==
    /\ upload = "first"
    /\ upload' = "wait"
    /\ last' = [op |-> "uploadWait"]
    /\ UNCHANGED <<coreVars, isUploading, openaiApiKey, drawerTab, uploadCount, chatVars,
                   sideVars, boundDocId, pureVars>>

\* Edit.tsx:188-189: the wait is over; the second request is sent
UploadRetry ==
    /\ upload = "wait"
    /\ upload' = "second"
    /\ last' = [op |-> "uploadRetry"]
    /\ UNCHANGED <<coreVars, isUploading, openaiApiKey, drawerTab, uploadCount, chatVars,
                   sideVars, boundDocId, pureVars>>

\* (the handler waiting and asking again)
UploadSecondFailedRetries ==
    /\ upload = "second"
    /\ upload' = "wait"
    /\ last' = [op |-> "uploadWait"]
    /\ UNCHANGED <<coreVars, isUploading, openaiApiKey, drawerTab, uploadCount, chatVars,
                   sideVars, boundDocId, pureVars>>
\* Edit.tsx:189, 230-238: the second request failed too
UploadSecondFailed ==
    /\ upload = "second"
    /\ upload' = "idle"
    /\ isUploading' = FALSE
    /\ last' = [op |-> "uploadFailed"]
    /\ UNCHANGED <<coreVars, openaiApiKey, drawerTab, uploadCount, chatVars,
                   sideVars, boundDocId, pureVars>>

\* Edit.tsx:197-199: Object.fromEntries keeps the last entry of a name
DescByName(phFromAPI, key) ==
    LET at == {i \in DOMAIN phFromAPI : phFromAPI[i].name = key}
    IN IF at = {} THEN ""
       ELSE phFromAPI[CHOOSE i \in at : \A j \in at : j <= i].description

\* Edit.tsx:194
NamesOf(phFromAPI) == [i \in DOMAIN phFromAPI |-> phFromAPI[i].name]

\* Edit.tsx:213-218
Extracted(tags, phFromAPI) ==
    [key \in tags |-> [name |-> key, description |-> DescByName(phFromAPI, key), value |-> ""]]

\* (the drafts of the session before kept for the names of the new one)
SeedDraftsKept(extracted) == [k \in DOMAIN extracted |-> Get(draftValues, k)]
\* Edit.tsx:221-223
SeedDrafts(extracted) == [k \in DOMAIN extracted |-> extracted[k].value]

\* Edit.tsx:191-238: a request answered; the rest of the handler.  The file
\* was picked when the handler started (Edit.tsx:176-178); its content is
\* first read here, by the binder, which throws on a file it cannot parse
UploadAnswered(file, phFromAPI, renders) ==
    /\ upload \in {"first", "second"}
    /\ LET orderedNewNames == NamesOf(phFromAPI)
           renamedBuffer == renameDocxByOccurrence(file.tokens, orderedNewNames)
           extracted == Extracted(getAllTags(renamedBuffer), phFromAPI)
       IN /\ documentId' = uploadCount
          /\ orderedNames' = orderedNewNames
          /\ IF file.valid
             THEN /\ templateBuffer' = Buffer(renamedBuffer)
                  /\ placeholders' = extracted
                  /\ draftValues' = Reconcile(SeedDrafts(extracted), extracted)
                  /\ drawerTab' = 0
                  /\ isLoading' = FALSE
                  /\ pending' = Unmounted(pending)
                  /\ chats' = <<>>
                  /\ boundDocId' = uploadCount
                  /\ preview' = PreviewEffect(preview, Buffer(renamedBuffer), extracted, renders)
             ELSE /\ chats' = IF drawerTab = 1 THEN currentChats(chatStore, uploadCount)
                                 ELSE chats
                  /\ UNCHANGED <<templateBuffer, placeholders, draftValues, drawerTab,
                                 isLoading, pending, boundDocId, preview>>
          /\ last' = [op |-> "uploadAnswered", file |-> file,
                      rendered |-> IF file.valid THEN Rendered(renders) ELSE "none",
                      placeholders |-> placeholders, draftValues |-> draftValues]
    /\ upload' = "idle"
    /\ isUploading' = FALSE
    /\ UNCHANGED <<openaiApiKey, uploadCount, chatStore, sent, syncs, pureVars>>

\* Edit.tsx:406: the tabs of the drawer; the drawer opens once a template is
\* bound (Edit.tsx:446, 501), and Chat is mounted only on tab 1 (Edit.tsx:721)
onTabChange(v) ==
    /\ templateBuffer # NoBuffer
    /\ v # drawerTab
    /\ drawerTab' = v
    /\ isLoading' = FALSE
    /\ pending' = IF v = 0 THEN Unmounted(pending) ELSE pending
    /\ chats' = IF v = 0 THEN <<>> ELSE currentChats(chatStore, documentId)
    /\ last' = [op |-> "tab"]
    /\ UNCHANGED <<coreVars, isUploading, openaiApiKey, upload, uploadCount, chatStore, sent,
                   sideVars, boundDocId, pureVars>>

\* (the keystroke committed as well)
onDraftChangeCommits(name, value) ==
    /\ drawerTab = 0
    /\ name \in DOMAIN placeholders
    /\ value # Get(draftValues, name)
    /\ draftValues' = DraftChanged(draftValues, name, value)
    /\ placeholders' = [placeholders EXCEPT ![name].value = value]
    /\ last' = [op |-> "edit", name |-> name, value |-> value,
                placeholders |-> placeholders, draftValues |-> draftValues]
    /\ UNCHANGED <<templateBuffer, orderedNames, documentId, uiVars,
                   chatVars, sideVars, boundDocId, pureVars>>
\* Edit.tsx:356-359: a keystroke in the field of a store name
\* (Edit.tsx:644-651); the change event carries a text other than the one shown
onDraftChange(name, value) ==
    /\ drawerTab = 0
    /\ name \in DOMAIN placeholders
    /\ value # Get(draftValues, name)
    /\ draftValues' = DraftChanged(draftValues, name, value)
    /\ last' = [op |-> "edit", name |-> name, value |-> value,
                placeholders |-> placeholders, draftValues |-> draftValues]
    /\ UNCHANGED <<placeholders, templateBuffer, orderedNames, documentId, uiVars,
                   chatVars, sideVars, boundDocId, pureVars>>

\* Edit.tsx:365-375: the apply button (or Enter) of a dirty field
\* (Edit.tsx:653, 685), up to the bulk-update request
applyOne(name, renders) ==
    /\ drawerTab = 0
    /\ name \in DOMAIN placeholders
    /\ isDirty(draftValues, placeholders, name)
    /\ LET out == ApplyOne(placeholders, draftValues, name, orderedNames)
       IN /\ placeholders' = out.placeholders
          /\ draftValues' = out.draftValues
          /\ preview' = PreviewEffect(preview, templateBuffer, out.placeholders, renders)
    /\ IF documentId # NoDocument
       THEN /\ syncs < MaxSyncs
            /\ syncs' = syncs + 1
            /\ last' = [op |-> "apply", name |-> name, rendered |-> Rendered(renders),
                        request |-> SyncRequest(documentId, name, Get(draftValues, name)),
                        placeholders |-> placeholders, draftValues |-> draftValues]
       ELSE /\ syncs' = syncs
            /\ last' = [op |-> "apply", name |-> name, rendered |-> Rendered(renders),
                        placeholders |-> placeholders, draftValues |-> draftValues]
    /\ UNCHANGED <<templateBuffer, orderedNames, documentId, uiVars, chatVars,
                   boundDocId, pureVars>>

\* Edit.tsx:375-378: the bulk-update request is acknowledged
SyncDone ==
    /\ syncs > 0
    /\ syncs' = syncs - 1
    /\ UNCHANGED <<coreVars, uiVars, chatVars, preview, boundDocId, last, pureVars>>

\* (the failure undoing the commits)
SyncFailedRollsBack ==
    /\ syncs > 0
    /\ syncs' = syncs - 1
    /\ placeholders' = [n \in DOMAIN placeholders |-> [placeholders[n] EXCEPT !.value = ""]]
    /\ UNCHANGED <<templateBuffer, orderedNames, documentId, draftValues, uiVars, chatVars,
                   preview, boundDocId, last, pureVars>>
\* Edit.tsx:379-384: the bulk-update request failed
SyncFailed ==
    /\ syncs > 0
    /\ syncs' = syncs - 1
    /\ UNCHANGED <<coreVars, uiVars, chatVars, preview, boundDocId, last, pureVars>>

\* Chat.tsx:56-74: the handler up to its request; the closure keeps the
\* documentId and the onChatResponse (with its orderedNames) of this render
handleSend(pendingLimit, sendLimit) ==
    /\ drawerTab = 1
    /\ documentId # NoDocument
    /\ openaiApiKey # ""
    /\ ~isLoading
    /\ Len(pending) < pendingLimit
    /\ Len(sent) < sendLimit
    /\ LET k == Len(sent) + 1
           updatedChats == Append(chats, UserMessage(k))
       IN /\ chats' = updatedChats
          /\ chatStore' = Put(chatStore, documentId, updatedChats)
          /\ pending' = Append(pending, [doc |-> documentId, names |-> orderedNames,
                                         live |-> TRUE, msg |-> k,
                                         updatedChats |-> updatedChats])
    /\ sent' = Append(sent, documentId)
    /\ isLoading' = TRUE
    /\ last' = [op |-> "send"]
    /\ UNCHANGED <<coreVars, uiVars, sideVars, boundDocId, pureVars>>

Without(reqs, i) == [j \in 1..(Len(reqs) - 1) |-> IF j < i THEN reqs[j] ELSE reqs[j + 1]]

\* (the entries rebuilt from the records, without their descriptions)
onChatResponseRebuilds(store, drafts, updates, names) ==
    LET nextStore == applyStructuredUpdates(store, updates, names)
    IN [placeholders |-> [k \in DOMAIN nextStore |->
                             [name |-> k, description |-> "", value |-> nextStore[k].value]],
        draftValues |-> Reconcile(DraftWrite(drafts, updates, names), nextStore)]
\* Edit.tsx:734-749: onChatResponse of the render the request was sent in,
\* on the store and the drafts of the moment, followed by the reconciliation
\* effect when the store was set (Edit.tsx:338: not for an empty batch)
onChatResponse(store, drafts, updates, names) ==
    LET nextStore == applyStructuredUpdates(store, updates, names)
        nextDrafts == DraftWrite(drafts, updates, names)
    IN [placeholders |-> nextStore,
        draftValues |-> IF updates = <<>> THEN nextDrafts
                        ELSE Reconcile(nextDrafts, nextStore)]

\* what a batch asks for: the value of the last record addressing each key
RECURSIVE FinalValues(_, _)
FinalValues(updates, names) ==
    IF updates = <<>> THEN EmptyObject
    ELSE LET u == updates[Len(updates)]
             k == ResolveKey(u, names)
             rest == FinalValues(SubSeq(updates, 1, Len(updates) - 1), names)
         IN IF Truthy(k) THEN Put(rest, k, u.value) ELSE rest

\* Chat.tsx:74-98, 117-119: the request is answered
ChatReplied(i, updates, renders) ==
    /\ i \in DOMAIN pending
    /\ LET out == onChatResponse(placeholders, draftValues, updates, pending[i].names)
       IN /\ placeholders' = out.placeholders
          /\ draftValues' = out.draftValues
          /\ preview' = IF updates = <<>> THEN preview
                        ELSE PreviewEffect(preview, templateBuffer, out.placeholders, renders)
    /\ LET finalChats == Append(pending[i].updatedChats, AssistantMessage(pending[i].msg))
       IN /\ chats' = IF pending[i].live THEN finalChats ELSE chats
          /\ chatStore' = Put(chatStore, pending[i].doc, finalChats)
    /\ isLoading' = IF pending[i].live THEN FALSE ELSE isLoading
    /\ pending' = Without(pending, i)
    /\ sent' = sent
    /\ last' = [op |-> "reply", final |-> FinalValues(updates, pending[i].names),
                doc |-> pending[i].doc,
                rendered |-> IF updates = <<>> THEN "none" ELSE Rendered(renders),
                placeholders |-> placeholders, draftValues |-> draftValues]
    /\ UNCHANGED <<templateBuffer, orderedNames, documentId, uiVars, syncs, boundDocId,
                   pureVars>>

\* (the failure handled without the finally)
ChatFailedKeepsLoading(i) ==
    /\ i \in DOMAIN pending
    /\ LET finalChats == Append(pending[i].updatedChats, ErrorChatMessage(pending[i].msg))
       IN /\ chats' = IF pending[i].live THEN finalChats ELSE chats
          /\ chatStore' = Put(chatStore, pending[i].doc, finalChats)
    /\ pending' = Without(pending, i)
    /\ last' = [op |-> "chatFailed", doc |-> pending[i].doc, msg |-> pending[i].msg]
    /\ UNCHANGED <<coreVars, uiVars, isLoading, sent, sideVars, boundDocId, pureVars>>
\* Chat.tsx:99-119: the request failed
ChatFailed(i) ==
    /\ i \in DOMAIN pending
    /\ LET finalChats == Append(pending[i].updatedChats, ErrorChatMessage(pending[i].msg))
       IN /\ chats' = IF pending[i].live THEN finalChats ELSE chats
          /\ chatStore' = Put(chatStore, pending[i].doc, finalChats)
    /\ isLoading' = IF pending[i].live THEN FALSE ELSE isLoading
    /\ pending' = Without(pending, i)
    /\ sent' = sent
    /\ last' = [op |-> "chatFailed", doc |-> pending[i].doc, msg |-> pending[i].msg]
    /\ UNCHANGED <<coreVars, uiVars, sideVars, boundDocId, pureVars>>

\* Edit.tsx:299-333: the download button (Edit.tsx:456, 515, 711)
Download(renders) ==
    /\ templateBuffer # NoBuffer
    /\ DOMAIN placeholders # {}
    /\ last' = [op |-> "download", rendered |-> Rendered(renders),
                exported |-> IF renders THEN Buffer(handleDownload(templateBuffer, placeholders))
                             ELSE NoBuffer]
    /\ UNCHANGED <<coreVars, uiVars, chatVars, sideVars, boundDocId, pureVars>>

ApiKeyInputs == {"sk-1", "  "}

NextWith(uploadLimit, batches, renderings, pendingLimit, sendLimit) ==
    \/ \E input \in ApiKeyInputs : handleApiKeySave(input)
    \/ handleFileUpload(uploadLimit)
    \/ UploadFirstFailed
    \/ UploadRetry
    \/ UploadSecondFailed
    \/ \E file \in Files, phFromAPI \in Responses, renders \in renderings :
          UploadAnswered(file, phFromAPI, renders)
    \/ \E v \in {0, 1} : onTabChange(v)
    \/ \E name \in DOMAIN placeholders, value \in EditValues : onDraftChange(name, value)
    \/ \E name \in DOMAIN placeholders, renders \in renderings : applyOne(name, renders)
    \/ SyncDone
    \/ SyncFailed
    \/ \E renders \in renderings : Download(renders)
    \/ handleSend(pendingLimit, sendLimit)
    \/ \E i \in DOMAIN pending, updates \in batches, renders \in renderings :
          ChatReplied(i, updates, renders)
    \/ \E i \in DOMAIN pending : ChatFailed(i)

\* one document per run; the templating engine renders every document
Next == NextWith(MaxUploads, Batches, {TRUE}, MaxPending, MaxSends)
Spec == Init /\ [][Next]_vars

\* runs in which a further upload replaces the session; the agent answers
\* with at most one record, by name or by order
ReuploadRecords ==
    [name : {"full_name"}, value : {"Ana Lopez"}] \cup [order : {1}, value : {"Ana Lopez"}]
NextReupload ==
    NextWith(MaxUploads + MaxReuploads, SeqsUpTo(ReuploadRecords, 1), {TRUE},
             MaxPending, MaxSends)
SpecReupload == Init /\ [][NextReupload]_vars

\* runs in which a render of the preview can fail
NextPreview ==
    NextWith(MaxUploads, SeqsUpTo(UpdateRecords, 1), BOOLEAN, MaxPending, MaxSends)
SpecPreview == Init /\ [][NextPreview]_vars

\* runs in which a message is sent while a request is pending
NextChat ==
    NextWith(MaxUploads, SeqsUpTo(ReuploadRecords, 1), {TRUE},
             MaxPending + MaxResends, MaxSends + MaxResends)
SpecChat == Init /\ [][NextChat]_vars

\* the steps in which an upload goes on after a request or the timer
\* (Edit.tsx:181-189), and those in which an agent message request ends
\* (Chat.tsx:74, 99)
UploadProceeds ==
    \/ UploadFirstFailed
    \/ UploadRetry
    \/ UploadSecondFailed
    \/ \E file \in Files, phFromAPI \in Responses : UploadAnswered(file, phFromAPI, TRUE)
RequestEnds ==
    \E i \in DOMAIN pending :
        \/ \E updates \in SeqsUpTo(ReuploadRecords, 1) : ChatReplied(i, updates, TRUE)
        \/ ChatFailed(i)

\* the runs of SpecChat in which every request ends and the timer of the
\* retry fires
SpecBusy == Init /\ [][NextChat]_vars /\ WF_vars(UploadProceeds) /\ WF_vars(RequestEnds)

-----------------------------------------------------------------------------
(* The binder on its own: two documents bound with one list of names *)

BinderRawTags == {"X", "Y"}
BinderDocs == SeqsUpTo(BinderRawTags, MaxTokens)

InitBind ==
    /\ InitSystem
    /\ adapter = [pc |-> "off"]
    /\ reconciler = [pc |-> "off"]
    /\ materializer = [pc |-> "off"]
    /\ binder \in [pc : {"in"}, docA : BinderDocs, docB : BinderDocs,
                   names : SeqsUpTo(BinderNames, MaxNames)]

BindDocuments ==
    /\ binder.pc = "in"
    /\ binder' = [pc |-> "out", docA |-> binder.docA, docB |-> binder.docB,
                  names |-> binder.names,
                  outA |-> renameDocxByOccurrence(binder.docA, binder.names),
                  outB |-> renameDocxByOccurrence(binder.docB, binder.names)]
    /\ UNCHANGED <<coreVars, uiVars, chatVars, sideVars, boundDocId, last, adapter,
                   reconciler, materializer>>

NextBind == BindDocuments
SpecBind == InitBind /\ [][NextBind]_vars

-----------------------------------------------------------------------------
(* The update adapter on its own: one batch applied to the state of a       *)
(* session, as onChatResponse does                                          *)

\* update records: by name, by order, with a blank name and an order, with a
\* name and an order, and with neither
AdapterRecords ==
    [name : {"full_name"}, value : AgentValues]
    \cup [name : {" email ", "phone"}, value : {"Ana Lopez"}]
    \cup [order : (-1)..(MaxNames + 1), value : {"Ana Lopez"}]
    \cup [name : {"  "}, order : {1}, value : {"Ana"}]
    \cup [name : {"phone"}, order : {1}, value : {"Ana Lopez"}]
    \cup [name : {"full_name"}, order : {2}, value : {"Ana"}]
    \cup [value : {"Ana"}]

\* the stores of a session: its upload, then some names edited and applied
SessionStores(tokens, phFromAPI) ==
    LET extracted == Extracted(getAllTags(renameDocxByOccurrence(tokens, NamesOf(phFromAPI))),
                               phFromAPI)
    IN {[k \in DOMAIN extracted |-> [extracted[k] EXCEPT !.value = v[k]]] :
            v \in [DOMAIN extracted -> EditValues]}

\* the drafts beside a store: every name clean, or every field holding "Ana"
SessionDrafts(store) ==
    {SeedDrafts(store), [k \in DOMAIN store |-> "Ana"]}

AdapterInputs ==
    UNION {UNION {{[pc |-> "in", placeholders |-> store, draftValues |-> drafts,
                    names |-> NamesOf(ph)] : drafts \in SessionDrafts(store)}
                  : store \in SessionStores(file.tokens, ph)}
           : file \in {f \in Files : f.valid}, ph \in Responses}

InitAdapter ==
    /\ InitSystem
    /\ binder = [pc |-> "off"]
    /\ reconciler = [pc |-> "off"]
    /\ materializer = [pc |-> "off"]
    /\ adapter \in AdapterInputs

AdaptBatch(updates) ==
    /\ adapter.pc = "in"
    /\ LET out == onChatResponse(adapter.placeholders, adapter.draftValues,
                                 updates, adapter.names)
       IN adapter' = [pc |-> "out", placeholders |-> adapter.placeholders,
                      draftValues |-> adapter.draftValues, names |-> adapter.names,
                      updates |-> updates,
                      outPlaceholders |-> out.placeholders,
                      outDraftValues |-> out.draftValues]
    /\ UNCHANGED <<coreVars, uiVars, chatVars, sideVars, boundDocId, last, binder,
                   reconciler, materializer>>

NextAdapter ==
    /\ adapter.pc = "in"
    /\ \E updates \in SeqsUpTo(AdapterRecords, MaxBatch) : AdaptBatch(updates)
SpecAdapter == InitAdapter /\ [][NextAdapter]_vars

-----------------------------------------------------------------------------
(* The draft reconciler on its own: a field of a session applied twice, and *)
(* an edit of the field merged with an agent response in both orders        *)

ReconcilerInputs ==
    UNION {UNION {{[pc |-> "in", placeholders |-> a.placeholders,
                    draftValues |-> a.draftValues, names |-> a.names,
                    name |-> name, text |-> text]
                   : text \in EditValues \ {Get(a.draftValues, name)}}
                  : name \in DOMAIN a.placeholders}
           : a \in AdapterInputs}

InitReconciler ==
    /\ InitSystem
    /\ binder = [pc |-> "off"]
    /\ adapter = [pc |-> "off"]
    /\ materializer = [pc |-> "off"]
    /\ reconciler \in ReconcilerInputs

\* applyOne, and applyOne again on the state the first left
ApplyTwice ==
    /\ reconciler.pc = "in"
    /\ LET once == ApplyOne(reconciler.placeholders, reconciler.draftValues,
                            reconciler.name, reconciler.names)
           twice == ApplyOne(once.placeholders, once.draftValues,
                             reconciler.name, reconciler.names)
       IN reconciler' = [pc |-> "applied", placeholders |-> reconciler.placeholders,
                         draftValues |-> reconciler.draftValues, name |-> reconciler.name,
                         once |-> once, twice |-> twice]
    /\ UNCHANGED <<coreVars, uiVars, chatVars, sideVars, boundDocId, last, binder, adapter,
                   materializer>>

\* onDraftChange then onChatResponse, and onChatResponse then onDraftChange
MergeBothOrders(updates) ==
    /\ reconciler.pc = "in"
    /\ LET edited == DraftChanged(reconciler.draftValues, reconciler.name, reconciler.text)
           editFirst == onChatResponse(reconciler.placeholders, edited, updates,
                                       reconciler.names)
           replied == onChatResponse(reconciler.placeholders, reconciler.draftValues,
                                     updates, reconciler.names)
           agentFirst == [placeholders |-> replied.placeholders,
                          draftValues |-> DraftChanged(replied.draftValues, reconciler.name,
                                                       reconciler.text)]
       IN reconciler' = [pc |-> "merged", placeholders |-> reconciler.placeholders,
                         draftValues |-> reconciler.draftValues, name |-> reconciler.name,
                         text |-> reconciler.text, updates |-> updates,
                         editFirst |-> editFirst, agentFirst |-> agentFirst]
    /\ UNCHANGED <<coreVars, uiVars, chatVars, sideVars, boundDocId, last, binder, adapter,
                   materializer>>

\* drafts the effect can meet: entries for some names of the store and for a
\* name outside it
ReconcileDrafts(store) ==
    UNION {[keys -> EditValues] : keys \in SUBSET (DOMAIN store \cup {"phone"})}

\* the reconciliation effect, and the effect again on its own result
ReconcileTwice(drafts) ==
    /\ reconciler.pc = "in"
    /\ LET once == Reconcile(drafts, reconciler.placeholders)
           twice == Reconcile(once, reconciler.placeholders)
       IN reconciler' = [pc |-> "reconciled", placeholders |-> reconciler.placeholders,
                         draftValues |-> drafts, once |-> once, twice |-> twice]
    /\ UNCHANGED <<coreVars, uiVars, chatVars, sideVars, boundDocId, last, binder, adapter,
                   materializer>>

NextReconciler ==
    \/ ApplyTwice
    \/ /\ reconciler.pc = "in"
       /\ \E drafts \in ReconcileDrafts(reconciler.placeholders) : ReconcileTwice(drafts)
    \/ /\ reconciler.pc = "in"
       /\ \E updates \in Batches : MergeBothOrders(updates)
SpecReconciler == InitReconciler /\ [][NextReconciler]_vars

-----------------------------------------------------------------------------
(* The materializer on its own: the bound document of an upload rendered    *)
(* for the preview and for the export                                       *)

\* committed values: empty, whitespace only, filled
MaterializerValues == {"", "  ", "Ana"}

MaterializerStores(tokens, phFromAPI) ==
    LET extracted == Extracted(getAllTags(renameDocxByOccurrence(tokens, NamesOf(phFromAPI))),
                               phFromAPI)
    IN {[k \in DOMAIN extracted |-> [extracted[k] EXCEPT !.value = v[k]]] :
            v \in [DOMAIN extracted -> MaterializerValues]}

MaterializerInputs ==
    UNION {{[pc |-> "in",
             templateBuffer |-> Buffer(renameDocxByOccurrence(file.tokens, NamesOf(ph))),
             placeholders |-> store]
            : store \in MaterializerStores(file.tokens, ph)}
           : file \in {f \in Files : f.valid}, ph \in Responses}

InitMaterializer ==
    /\ InitSystem
    /\ binder = [pc |-> "off"]
    /\ adapter = [pc |-> "off"]
    /\ reconciler = [pc |-> "off"]
    /\ materializer \in MaterializerInputs

Materialize ==
    /\ materializer.pc = "in"
    /\ materializer' =
          [pc |-> "out", templateBuffer |-> materializer.templateBuffer,
           placeholders |-> materializer.placeholders,
           filled |-> generateFilledArrayBuffer(materializer.templateBuffer,
                                                materializer.placeholders, TRUE),
           exported |-> handleDownload(materializer.templateBuffer,
                                       materializer.placeholders)]
    /\ UNCHANGED <<coreVars, uiVars, chatVars, sideVars, boundDocId, last, binder, adapter,
                   reconciler>>

NextMaterializer == Materialize
SpecMaterializer == InitMaterializer /\ [][NextMaterializer]_vars

-----------------------------------------------------------------------------
(* Properties *)

Range(seq) == {seq[i] : i \in DOMAIN seq}

\* C1: a name that is dirty when an agent response changes its committed
\* value keeps its draft through the response and the reconciliation
C1_DirtyDraftSurvivesAgentUpdate ==
    last.op = "reply" =>
        \A n \in DOMAIN last.placeholders :
            (/\ isDirty(last.draftValues, last.placeholders, n)
             /\ Committed(placeholders, n) # Committed(last.placeholders, n))
            => Get(draftValues, n) = Get(last.draftValues, n)

\* C2: the response to a message sent for an earlier document changes
\* neither the committed value nor the draft of any name of the document
\* uploaded since
C2_StaleReplyIgnored ==
    (last.op = "reply" /\ last.doc # documentId /\ boundDocId = documentId) =>
        \A n \in DOMAIN placeholders :
            /\ Committed(placeholders, n) = Committed(last.placeholders, n)
            /\ Get(draftValues, n) = Get(last.draftValues, n)

\* C3: an agent response addressing a clean name sets its committed value and
\* its draft to the value of the update, and the name is clean again
C3_CleanNameTakesAgentValue ==
    last.op = "reply" =>
        \A n \in DOMAIN last.placeholders \cap DOMAIN last.final :
            ~isDirty(last.draftValues, last.placeholders, n) =>
                /\ Committed(placeholders, n) = last.final[n]
                /\ Get(draftValues, n) = last.final[n]
                /\ ~isDirty(draftValues, placeholders, n)

\* "Ana" was applied to full_name, then the agent delivered "Ana Lopez"
C3_Witness ==
    /\ last.op = "reply"
    /\ "full_name" \in DOMAIN last.placeholders \cap DOMAIN last.final
    /\ last.placeholders["full_name"].value = "Ana"
    /\ Get(last.draftValues, "full_name") = "Ana"
    /\ last.final["full_name"] = "Ana Lopez"
    /\ placeholders["full_name"].value = "Ana Lopez"
    /\ draftValues["full_name"] = "Ana Lopez"

\* C4: once a document is bound, the keys of the store are the names of the
\* ordered name list
C4_StoreKeysAreOrderedNames ==
    templateBuffer # NoBuffer => DOMAIN placeholders = Range(orderedNames)

\* C5: after an upload the ordered name list has one name per raw token, and
\* its i-th name is the name bound to the i-th token
C5_OrderedNamesMatchTokens ==
    (last.op = "uploadAnswered" /\ last.file.valid) =>
        /\ Len(orderedNames) = Len(last.file.tokens)
        /\ \A i \in 1..Len(last.file.tokens) :
              /\ i \in DOMAIN orderedNames
              /\ orderedNames[i] = TagOf(templateBuffer[1][i])

\* C6: the names bound to the tokens of a document are pairwise distinct
C6_BoundNamesDistinct ==
    binder.pc = "out" =>
        \A i, j \in DOMAIN binder.outA : i # j => binder.outA[i] # binder.outA[j]

\* n written with at least three digits
ThreeDigits(n) ==
    IF n < 10 THEN "00" \o ToString(n)
    ELSE IF n < 100 THEN "0" \o ToString(n) ELSE ToString(n)

\* C7: the binder replaces the i-th token by [i-th name], and beyond the list
\* by [placeholder_NNN] with NNN its 1-based position; it keeps the number
\* and the order of the tokens
C7_RenameByOccurrence ==
    binder.pc = "out" =>
        /\ Len(binder.outA) = Len(binder.docA)
        /\ \A i \in 1..Len(binder.docA) :
              binder.outA[i] = IF i <= Len(binder.names)
                               THEN "[" \o binder.names[i] \o "]"
                               ELSE "[placeholder_" \o ThreeDigits(i) \o "]"

\* a document with a named token and an overflow token
C7_Witness ==
    /\ binder.pc = "out"
    /\ Len(binder.names) >= 1
    /\ Len(binder.docA) > Len(binder.names)
    /\ binder.outA[Len(binder.docA)] = "[placeholder_002]"

\* C8: binding depends on the position of a token only: documents of the same
\* length get the same names, and tokens with the same raw text at different
\* positions get different names
C8_PositionalBinding ==
    binder.pc = "out" =>
        /\ Len(binder.docA) = Len(binder.docB) => binder.outA = binder.outB
        /\ \A i, j \in DOMAIN binder.docA :
              (i # j /\ binder.docA[i] = binder.docA[j]) => binder.outA[i] # binder.outA[j]

\* the record addresses no key of the store
Unresolved(u, names, store) ==
    ~Truthy(ResolveKey(u, names)) \/ ResolveKey(u, names) \notin DOMAIN store

\* C9: the records of a batch that resolve to no key of the store change
\* nothing: the batch acts on the store and on the drafts as it does without
\* them
C9_UnresolvedRecordsAreNoOps ==
    adapter.pc = "out" =>
        LET Resolved(u) == ~Unresolved(u, adapter.names, adapter.placeholders)
            kept == SelectSeq(adapter.updates, Resolved)
            want == onChatResponse(adapter.placeholders, adapter.draftValues, kept,
                                   adapter.names)
        IN /\ adapter.outPlaceholders = want.placeholders
           /\ adapter.outDraftValues = want.draftValues

\* the name of the record is absent or blank
BlankName(u) == "name" \notin DOMAIN u \/ trim(u.name) = ""
\* the order of the record is a position of the list
InRange(u, names) == "order" \in DOMAIN u /\ 1 <= u.order /\ u.order <= Len(names)
\* the name a record addresses, read off the record: its name, else the
\* name at its order
Addressed(u, names) ==
    IF ~BlankName(u) THEN trim(u.name)
    ELSE IF InRange(u, names) THEN names[u.order] ELSE Undefined

\* C10: a record with no name and order n addresses orderedNames[n-1] for
\* 1 <= n <= len (the last such record of a batch sets the committed value of
\* that name), and is dropped for every other n (a batch of such records
\* changes nothing)
C10_OrderResolution ==
    adapter.pc = "out" =>
        /\ \A i \in DOMAIN adapter.updates :
              LET u == adapter.updates[i]
              IN (/\ BlankName(u)
                  /\ InRange(u, adapter.names)
                  /\ adapter.names[u.order] \in DOMAIN adapter.placeholders
                  /\ \A j \in DOMAIN adapter.updates :
                        j > i => Addressed(adapter.updates[j], adapter.names)
                                    # adapter.names[u.order])
                 => adapter.outPlaceholders[adapter.names[u.order]].value = u.value
        /\ (\A i \in DOMAIN adapter.updates :
                /\ BlankName(adapter.updates[i])
                /\ ~InRange(adapter.updates[i], adapter.names))
           => (/\ adapter.outPlaceholders = adapter.placeholders
               /\ adapter.outDraftValues = adapter.draftValues)

\* names [full_name, email]: order 2 sets email, order 3 is dropped
C10_Witness ==
    /\ adapter.pc = "out"
    /\ adapter.names = <<"full_name", "email">>
    /\ adapter.updates = <<[order |-> 2, value |-> "Ana Lopez"],
                           [order |-> 3, value |-> "Ana Lopez"]>>
    /\ DOMAIN adapter.placeholders = {"full_name", "email"}
    /\ adapter.placeholders["email"].value = ""
    /\ adapter.outPlaceholders["email"].value = "Ana Lopez"
    /\ adapter.outPlaceholders["full_name"] = adapter.placeholders["full_name"]

\* C11: applying a field twice in a row leaves the committed value the first
\* apply left (the draft that was applied), and the name is clean after the
\* first apply and after the second
C11_ApplyIdempotent ==
    reconciler.pc = "applied" =>
        LET n == reconciler.name
        IN /\ Committed(reconciler.once.placeholders, n) = Get(reconciler.draftValues, n)
           /\ reconciler.twice.placeholders = reconciler.once.placeholders
           /\ ~isDirty(reconciler.once.draftValues, reconciler.once.placeholders, n)
           /\ ~isDirty(reconciler.twice.draftValues, reconciler.twice.placeholders, n)

\* a dirty field holding "Ana" applied twice
C11_Witness ==
    /\ reconciler.pc = "applied"
    /\ Committed(reconciler.placeholders, reconciler.name) = ""
    /\ Get(reconciler.draftValues, reconciler.name) = "Ana"
    /\ Committed(reconciler.once.placeholders, reconciler.name) = "Ana"
    /\ Committed(reconciler.twice.placeholders, reconciler.name) = "Ana"

\* C12: an edit of a name and an agent response merge to the same committed
\* value and the same draft of the name in both orders
C12_MergeOrderIndependent ==
    reconciler.pc = "merged" =>
        LET n == reconciler.name
        IN /\ Committed(reconciler.editFirst.placeholders, n)
                = Committed(reconciler.agentFirst.placeholders, n)
           /\ Get(reconciler.editFirst.draftValues, n)
                = Get(reconciler.agentFirst.draftValues, n)

\* C13: after an upload that failed (both requests rejected, or the file is
\* not a container) the session id and the ordered names come from the same
\* upload as the bound document, the store and the drafts, and the keys of
\* the store are the ordered names
C13_FailedUploadKeepsOneSession ==
    (last.op = "uploadFailed" \/ (last.op = "uploadAnswered" /\ ~last.file.valid)) =>
        /\ boundDocId = documentId
        /\ templateBuffer # NoBuffer => DOMAIN placeholders = Range(orderedNames)

\* C14: after a successful upload the keys of the store and of the drafts are
\* the names bound to the tokens of the new document, and every committed
\* value and every draft is empty
C14_UploadReplacesSession ==
    (last.op = "uploadAnswered" /\ last.file.valid) =>
        /\ DOMAIN placeholders =
              {NextName(orderedNames, i - 1) : i \in 1..Len(last.file.tokens)}
        /\ DOMAIN draftValues = DOMAIN placeholders
        /\ \A n \in DOMAIN placeholders :
              /\ placeholders[n].value = ""
              /\ draftValues[n] = ""
              /\ ~isDirty(draftValues, placeholders, n)

\* a second upload sharing full_name with the first, whose full_name was
\* committed as "Ana" and whose email field held an unapplied "Ana"
C14_Witness ==
    /\ last.op = "uploadAnswered"
    /\ last.file.valid
    /\ uploadCount = MaxUploads + 1
    /\ "full_name" \in DOMAIN last.placeholders \cap DOMAIN placeholders
    /\ last.placeholders["full_name"].value = "Ana"
    /\ Get(last.draftValues, "email") = "Ana"
    /\ Committed(last.placeholders, "email") = ""

\* C15: the step of applyOne that sends the bulk-update request has already
\* set the committed value of the name to its draft, and the step in which
\* the request completes, acknowledged or failed, changes no committed value
\* and no draft
C15_ApplyCommitsBeforeSync ==
    [][/\ syncs' > syncs =>
             Committed(placeholders', last'.name) = Get(draftValues, last'.name)
       /\ syncs' < syncs => UNCHANGED <<placeholders, draftValues>>]_vars

\* "Ana" was applied to full_name and the request has completed
C15_Witness ==
    /\ last.op = "apply"
    /\ last.name = "full_name"
    /\ Get(last.draftValues, "full_name") = "Ana"
    /\ Committed(last.placeholders, "full_name") = ""
    /\ Committed(placeholders, "full_name") = "Ana"
    /\ Get(draftValues, "full_name") = "Ana"
    /\ syncs = 0

\* C17: a keystroke sets the draft of its name to the text typed, whatever
\* the draft was, and changes no committed value, no other draft, not the
\* ordered names and not the session id
C17_EditFrame ==
    [][last'.op = "edit" =>
          /\ draftValues'[last'.name] = last'.value
          /\ \A n \in (DOMAIN draftValues \cup DOMAIN draftValues') \ {last'.name} :
                /\ n \in DOMAIN draftValues \cap DOMAIN draftValues'
                /\ draftValues'[n] = draftValues[n]
          /\ UNCHANGED <<placeholders, orderedNames, documentId>>]_vars

\* a dirty field edited again, beside another field
C17_Witness ==
    /\ last.op = "edit"
    /\ isDirty(last.draftValues, last.placeholders, last.name)
    /\ Committed(last.placeholders, last.name) = "Ana Lopez"
    /\ Get(last.draftValues, last.name) = "Ana"
    /\ draftValues[last.name] = ""
    /\ Cardinality(DOMAIN draftValues) > 1

\* C18: a step sends a bulk-update request only if it is an apply, and the
\* request carries the session id and exactly one record: the name applied
\* with the value committed by the apply; and every apply sends one
C18_SyncOnlyOnApply ==
    [][/\ syncs' > syncs =>
             /\ last'.op = "apply"
             /\ last'.request =
                   [id |-> documentId,
                    updates |-> <<[name |-> last'.name,
                                   value |-> Committed(placeholders', last'.name)]>>]
       /\ (last' # last /\ last'.op # "apply") => syncs' <= syncs]_vars

\* an apply of "Ana" to full_name has sent its request, after edits and an
\* agent response that sent none
C18_Witness ==
    /\ last.op = "apply"
    /\ syncs = 1
    /\ last.request.updates = <<[name |-> "full_name", value |-> "Ana"]>>
    /\ Committed(last.placeholders, "full_name") = "Ana Lopez"

\* C16: after a batch the committed value of every name is the value of the
\* last record of the batch addressing it, by name or by order, and the value
\* it had when no record addresses it
C16_LastWriteWins ==
    adapter.pc = "out" =>
        \A n \in DOMAIN adapter.placeholders :
            LET hits == {i \in DOMAIN adapter.updates :
                            Addressed(adapter.updates[i], adapter.names) = n}
            IN adapter.outPlaceholders[n].value =
                  IF hits = {} THEN adapter.placeholders[n].value
                  ELSE adapter.updates[CHOOSE i \in hits : \A j \in hits : j <= i].value

\* full_name addressed by order with "Ana Lopez", then by name with "Ana"
C16_Witness ==
    /\ adapter.pc = "out"
    /\ adapter.names[1] = "full_name"
    /\ adapter.updates = <<[order |-> 1, value |-> "Ana Lopez"],
                           [name |-> "full_name", value |-> "Ana"]>>
    /\ adapter.placeholders["full_name"].value = ""
    /\ adapter.outPlaceholders["full_name"].value = "Ana"

\* C19: a step whose render of the preview fails leaves the preview as it
\* was shown before the step
C19_FailedRenderKeepsPreview ==
    [][(last'.op \in {"uploadAnswered", "apply", "reply"} /\ last'.rendered = "failed")
          => preview' = preview]_vars

\* the tag of the i-th token of the bound document
TagAt(m, i) == TagOf(m.templateBuffer[1][i])

\* C20: the preview render and the export render of a bound document are the
\* same for every store: the token of a name whose committed value is not
\* blank becomes the value, every other token becomes [name]
C20_PreviewEqualsExport ==
    materializer.pc = "out" =>
        /\ materializer.filled = Buffer(materializer.exported)
        /\ \A i \in DOMAIN materializer.exported :
              LET n == TagAt(materializer, i)
                  v == materializer.placeholders[n].value
              IN materializer.exported[i] =
                    IF v \notin {"", "  "} THEN v ELSE "[" \o n \o "]"

\* full_name = "Ana", email blank
C20_Witness ==
    /\ materializer.pc = "out"
    /\ materializer.templateBuffer = Buffer(<<"[full_name]", "[email]">>)
    /\ materializer.placeholders["full_name"].value = "Ana"
    /\ materializer.placeholders["email"].value = "  "
    /\ materializer.exported = <<"Ana", "[email]">>
    /\ materializer.filled = Buffer(<<"Ana", "[email]">>)

\* C21: a step changes the committed value of a name only if it applies that
\* name, is an agent response with a record resolving to that name, or is an
\* upload; an apply and an agent response keep the keys of the store and the
\* name and description of every entry; only an upload changes the ordered
\* names
C21_StoreFrame ==
    [][/\ \A n \in DOMAIN placeholders \cap DOMAIN placeholders' :
             placeholders'[n].value # placeholders[n].value =>
                 \/ last'.op = "apply" /\ last'.name = n
                 \/ last'.op = "reply" /\ n \in DOMAIN last'.final
                 \/ last'.op = "uploadAnswered" /\ last'.file.valid
       /\ last'.op \in {"apply", "reply"} =>
             /\ DOMAIN placeholders' = DOMAIN placeholders
             /\ \A n \in DOMAIN placeholders :
                   /\ placeholders'[n].name = placeholders[n].name
                   /\ placeholders'[n].description = placeholders[n].description
       /\ orderedNames' # orderedNames => last'.op = "uploadAnswered"]_vars

\* an agent response set full_name and left email, of a store of two names
C21_Witness ==
    /\ last.op = "reply"
    /\ DOMAIN placeholders = {"full_name", "email"}
    /\ last.placeholders["full_name"].value = ""
    /\ placeholders["full_name"].value = "Ana Lopez"
    /\ placeholders["full_name"].description = last.placeholders["full_name"].description
    /\ placeholders["full_name"].description # ""
    /\ placeholders["email"] = last.placeholders["email"]
    /\ "email" \notin DOMAIN last.final

\* C22: an upload makes its second request only after the wait that follows
\* the failure of its first, and none after the second: when the second
\* fails the upload ends, reported, with the session as it was; a failed
\* bulk update and a failed agent message send no further request
C22_AtMostOneRetry ==
    [][/\ upload' = "first" => upload \in {"idle", "first"}
       /\ upload' = "wait" => upload \in {"first", "wait"}
       /\ upload' = "second" => upload \in {"wait", "second"}
       /\ upload = "second" => upload' \in {"second", "idle"}
       /\ (upload = "second" /\ last'.op = "uploadFailed") =>
             /\ upload' = "idle"
             /\ ~isUploading'
             /\ UNCHANGED <<coreVars, uploadCount>>
       /\ syncs' < syncs => syncs' = syncs - 1
       /\ (last' # last /\ last'.op = "chatFailed") =>
             /\ Len(pending') = Len(pending) - 1
             /\ sent' = sent
             /\ syncs' = syncs]_vars

\* both requests of an upload failed
C22_Witness ==
    /\ last.op = "uploadFailed"
    /\ upload = "idle"
    /\ ~isUploading
    /\ uploadCount = 1
    /\ documentId = NoDocument

\* C23: while the API key is empty no upload was started and no message was
\* sent, and the store, the drafts and the session id are as constructed; a
\* saved key is not blank
C23_NoCredentialNoRequests ==
    /\ openaiApiKey = "" =>
          /\ upload = "idle"
          /\ uploadCount = 0
          /\ pending = <<>>
          /\ sent = <<>>
          /\ placeholders = EmptyObject
          /\ draftValues = EmptyObject
          /\ documentId = NoDocument
    /\ openaiApiKey # "" => trim(openaiApiKey) # ""

\* the first key saved, with nothing requested before
C23_Witness ==
    /\ last.op = "saveKey"
    /\ openaiApiKey = "sk-1"
    /\ uploadCount = 0
    /\ sent = <<>>

\* the bound document with every token replaced by the committed value of its
\* name, or by [name] when that value is blank
CommittedRender(buffer, store) ==
    [i \in DOMAIN buffer[1] |->
        LET n == TagOf(buffer[1][i])
            v == Committed(store, n)
        IN IF v \notin {"", "  "} THEN v ELSE "[" \o n \o "]"]

\* C24: the preview of a bound document always shows the committed values of
\* the current store, whatever the drafts; a keystroke leaves the preview as
\* it is; a download exports the committed values
C24_RenderFromCommitted ==
    [][/\ templateBuffer' # NoBuffer =>
             preview' = Shown(CommittedRender(templateBuffer', placeholders'))
       /\ (last' # last /\ last'.op = "edit") => preview' = preview
       /\ last'.op = "download" =>
             last'.exported = Buffer(CommittedRender(templateBuffer', placeholders'))]_vars

\* "Ana" typed into full_name and not applied: preview and export show
\* [full_name]
C24_Witness ==
    /\ last.op = "download"
    /\ Get(draftValues, "full_name") = "Ana"
    /\ Committed(placeholders, "full_name") = ""
    /\ templateBuffer = Buffer(<<"[full_name]">>)
    /\ preview = Shown(<<"[full_name]">>)
    /\ last.exported = Buffer(<<"[full_name]">>)

\* C25: the reconciliation effect run on its own result changes nothing; its
\* result has an entry for every name of the store; an entry that differs
\* from the committed value of its name, or whose name is not in the store,
\* is kept
C25_ReconcileIdempotent ==
    reconciler.pc = "reconciled" =>
        /\ reconciler.twice = reconciler.once
        /\ DOMAIN reconciler.placeholders \subseteq DOMAIN reconciler.once
        /\ \A k \in DOMAIN reconciler.draftValues :
              (reconciler.draftValues[k] # Committed(reconciler.placeholders, k))
                  => (k \in DOMAIN reconciler.once
                      /\ reconciler.once[k] = reconciler.draftValues[k])

\* a store of two names with values, a dirty draft for one and none for the
\* other
C25_Witness ==
    /\ reconciler.pc = "reconciled"
    /\ DOMAIN reconciler.placeholders = {"full_name", "email"}
    /\ reconciler.placeholders["full_name"].value = "Ana"
    /\ reconciler.placeholders["email"].value = "Ana"
    /\ reconciler.draftValues = [k \in {"full_name"} |-> ""]
    /\ reconciler.once["full_name"] = ""
    /\ reconciler.once["email"] = "Ana"

\* C26: a failed agent message request leaves the store, the drafts, the
\* ordered name list and the session id unchanged, and appends exactly one
\* assistant message holding the error to the chat history of the document the
\* message was sent for
C26_FailedMessageAppendsError ==
    [][(last' # last /\ last'.op = "chatFailed") =>
          /\ UNCHANGED <<placeholders, draftValues, orderedNames, documentId>>
          /\ chatStore'[last'.doc] = Append(currentChats(chatStore, last'.doc),
                                            ErrorChatMessage(last'.msg))]_vars

\* C27: every name that has a draft entry is a key of the store
C27_DraftKeysInStore == DOMAIN draftValues \subseteq DOMAIN placeholders

\* the requests sent so far that have been answered or have failed
Completed == {k \in DOMAIN sent : \A i \in DOMAIN pending : pending[i].msg # k}

\* C29: chatStore for a document holds every user message sent for that
\* document and one assistant message for each completed request, in send
\* order
C29_HistoryKept ==
    \A d \in Range(sent) :
        LET history == currentChats(chatStore, d)
        IN /\ \A k \in DOMAIN sent :
                 sent[k] = d => \E i \in DOMAIN history : history[i] = UserMessage(k)
           /\ \A k \in Completed :
                 sent[k] = d =>
                     Cardinality({i \in DOMAIN history : /\ history[i].role = "assistant"
                                                         /\ history[i].msg = k}) = 1
           /\ \A i, j \in DOMAIN history :
                 (i < j /\ history[i].role = "user" /\ history[j].role = "user")
                     => history[i].msg < history[j].msg

\* C30: at most one agent message request is in flight at any time
C30_OneRequestInFlight == Len(pending) <= 1

\* the record without its order when it has a name that is not blank
StripOrder(u) ==
    IF BlankName(u) \/ "order" \notin DOMAIN u THEN u
    ELSE [name |-> u.name, value |-> u.value]

\* C28: the order of a record is consulted only when its name is absent or
\* blank: a batch acts on the store and on the drafts as it does with the
\* orders of its named records removed; a record with a name that is not
\* blank and not a key of the store leaves the store as the records before
\* it left it, also with an order in range; a record with a known name and
\* an order sets the committed value of that name and of no other name
C28_OrderOnlyForBlankName ==
    adapter.pc = "out" =>
        /\ LET stripped == [i \in DOMAIN adapter.updates |-> StripOrder(adapter.updates[i])]
               want == onChatResponse(adapter.placeholders, adapter.draftValues, stripped,
                                      adapter.names)
           IN /\ adapter.outPlaceholders = want.placeholders
              /\ adapter.outDraftValues = want.draftValues
        /\ \A i \in DOMAIN adapter.updates :
              LET u == adapter.updates[i]
                  before == applyStructuredUpdates(adapter.placeholders,
                                                   SubSeq(adapter.updates, 1, i - 1),
                                                   adapter.names)
                  after == applyStructuredUpdates(adapter.placeholders,
                                                  SubSeq(adapter.updates, 1, i),
                                                  adapter.names)
              IN (~BlankName(u) /\ "order" \in DOMAIN u) =>
                    IF trim(u.name) \in DOMAIN adapter.placeholders
                    THEN /\ after[trim(u.name)].value = u.value
                         /\ \A n \in DOMAIN after \ {trim(u.name)} : after[n] = before[n]
                    ELSE after = before

\* names [full_name, email], both empty: the record named phone with order 1
\* is dropped, the record named full_name with order 2 sets full_name
C28_Witness ==
    /\ adapter.pc = "out"
    /\ adapter.names = <<"full_name", "email">>
    /\ adapter.updates = <<[name |-> "phone", order |-> 1, value |-> "Ana Lopez"],
                           [name |-> "full_name", order |-> 2, value |-> "Ana"]>>
    /\ DOMAIN adapter.placeholders = {"full_name", "email"}
    /\ adapter.placeholders["full_name"].value = ""
    /\ adapter.placeholders["email"].value = ""
    /\ adapter.outPlaceholders["full_name"].value = "Ana"
    /\ adapter.outPlaceholders["email"].value = ""

\* C31: at most one upload is in progress at any time: from its start to its
\* end, the wait before the retry included, the uploading flag is set, and an
\* upload starts only while none is in progress, so the session is replaced
\* by one upload at a time
C31_OneUploadAtATime ==
    [][/\ upload' # "idle" => isUploading'
       /\ uploadCount' # uploadCount =>
             /\ upload = "idle"
             /\ ~isUploading
             /\ uploadCount' = uploadCount + 1
       /\ (last' # last /\ last'.op = "uploadAnswered") =>
             /\ upload \in {"first", "second"}
             /\ documentId' = uploadCount
             /\ uploadCount' = uploadCount]_vars

\* the second upload of a session, waiting before its retry, with the
\* document of the first still bound
C31_Witness ==
    /\ uploadCount = MaxUploads + 1
    /\ upload = "wait"
    /\ isUploading
    /\ templateBuffer # NoBuffer
    /\ boundDocId = MaxUploads

\* C32: the busy flags always clear: the uploading flag is set only while an
\* upload is in progress and the chat loading flag only while a request of
\* the mounted chat is pending, and when every request ends each flag that is
\* set is cleared later
C32_BusyFlagsClear ==
    /\ [](isUploading => upload # "idle")
    /\ [](isLoading => \E i \in DOMAIN pending : pending[i].live)
    /\ isUploading ~> ~isUploading
    /\ isLoading ~> ~isLoading

\* the upload of the session has ended and so have two messages, the last
\* of them by a failure
C32_Witness ==
    /\ last.op = "chatFailed"
    /\ Len(sent) = MaxSends + MaxResends
    /\ pending = <<>>
    /\ ~isLoading
    /\ ~isUploading
    /\ drawerTab = 1

====
